---------------------------- MODULE Spec2Model ----------------------------
(***************************************************************************)
(* polarissync: prune the Polaris.Workstations inventory of computers that *)
(* no directory (Active Directory, Azure AD) knows any more.               *)
(*                                                                         *)
(* A string is a sequence of one-character strings, so that ToUpper,       *)
(* TrimSpace, Split and HasPrefix are computed character by character.     *)
(***************************************************************************)
EXTENDS Integers, Sequences, FiniteSets, TLC

VARIABLES
    config,       \* Configuration: adEnabled, azEnabled, exempt, dsnValid
    store,        \* rows of Polaris.Workstations (ComputerName values, in read order)
    collationCI,  \* the ComputerName column compares case-insensitively
    adDir,        \* cn values the LDAP search returns
    azReport,     \* index in Reports of the text powershell writes to stdout
    dbComputers,  \* global slice
    adComputers,  \* global slice
    pc,           \* function of main() in progress, or "done"
    halted,       \* the process panicked (writeError) or exited (log.Fatal) in pc
    x,            \* loop index of findComputersToRemoveFromDB (1-based)
    count,        \* removal counter of findComputersToRemoveFromDB
    ext,          \* outcome of each external call of this run
    sinkCalls,    \* calls of removeComputer in this run, with what the delete did
    log,          \* messages this run passed to writeInfo, in order
    run,          \* number of the run (process) in progress
    prevRun,      \* how the previous run ended
    wIdx,         \* cloud session: commands the writer goroutine has written
    stdinClosed,  \* cloud session: the writer closed stdin
    stdinBuf,     \* cloud session: commands buffered in the stdin pipe
    childPc,      \* cloud session: what powershell is doing
    outBuf,       \* cloud session: units buffered in the stdout pipe
    errBuf,       \* cloud session: units buffered in the stderr pipe
    outSent,      \* cloud session: units powershell has written to stdout
    errSent,      \* cloud session: units powershell has written to stderr
    azPc          \* cloud session: position of listAzureComputers

mainVars == <<config, store, collationCI, adDir, azReport, dbComputers,
              adComputers, pc, halted, x, count, ext, sinkCalls, log, run, prevRun>>
cloudVars == <<wIdx, stdinClosed, stdinBuf, childPc, outBuf, errBuf, outSent,
               errSent, azPc>>
vars == <<mainVars, cloudVars>>

\* ---------------------------------------------------------------- bounds
MaxRows == 3
MaxRuns == 2
PipeCap == 2
MaxOutput == 3

\* ------------------------------------------------------------ constants
DashRun == 11
NumCommands == 6

\* -------------------------------------------------------------- strings
LowerChars == <<"a","b","c","d","e","f","g","h","i","j","k","l","m",
                "n","o","p","q","r","s","t","u","v","w","x","y","z">>
UpperChars == <<"A","B","C","D","E","F","G","H","I","J","K","L","M",
                "N","O","P","Q","R","S","T","U","V","W","X","Y","Z">>

UpperOf(c) ==
    IF \E i \in 1..Len(LowerChars) : LowerChars[i] = c
    THEN UpperChars[CHOOSE i \in 1..Len(LowerChars) : LowerChars[i] = c]
    ELSE c

ToUpper(s) == [i \in 1..Len(s) |-> UpperOf(s[i])]

IsSpace(c) == c \in {" ", "\t", "\n", "\r"}

RECURSIVE TrimLeft(_)
TrimLeft(s) ==
    IF s # <<>> /\ IsSpace(Head(s)) THEN TrimLeft(Tail(s)) ELSE s

RECURSIVE TrimRight(_)
TrimRight(s) ==
    IF s # <<>> /\ IsSpace(s[Len(s)]) THEN TrimRight(SubSeq(s, 1, Len(s) - 1)) ELSE s

TrimSpace(s) == TrimRight(TrimLeft(s))

HasPrefix(s, p) == Len(s) >= Len(p) /\ SubSeq(s, 1, Len(p)) = p

RECURSIVE Split(_, _)
Split(s, sep) ==
    IF \A i \in 1..Len(s) : s[i] # sep
    THEN <<s>>
    ELSE LET i == CHOOSE k \in 1..Len(s) :
                      s[k] = sep /\ \A j \in 1..(k - 1) : s[j] # sep
         IN  <<SubSeq(s, 1, i - 1)>> \o Split(SubSeq(s, i + 1, Len(s)), sep)

Range(s) == {s[i] : i \in 1..Len(s)}

ToUpperAll(s) == [i \in 1..Len(s) |-> ToUpper(s[i])]

SeqsUpTo(S, n) == UNION {[1..k -> S] : k \in 0..n}

\* ---------------------------------------------------- the cloud report
Dashes == [i \in 1..DashRun |-> "-"]

RECURSIVE ScanReport(_, _, _)
ScanReport(psData, skip, acc) ==
    IF psData = <<>> THEN acc
    ELSE LET c == Head(psData) IN
         IF ~skip
         THEN LET trimmed == TrimSpace(c) IN
              IF trimmed = <<>> THEN acc
              ELSE ScanReport(Tail(psData), skip, Append(acc, ToUpper(trimmed)))
         ELSE ScanReport(Tail(psData), ~HasPrefix(TrimSpace(c), Dashes), acc)

ParseReport(out) == ScanReport(Split(out, "\r"), TRUE, <<>>)

\* ------------------------------------------------- the external world
\* ComputerName values a row of Polaris.Workstations may hold (non-null).
RawNames == { <<"a">>, <<"A">>, <<"B">>, <<>> }

\* Results of the LDAP search: the cn of each entry.
DirChoices == { <<>>, << <<"a">> >>, << <<"B">>, <<"A">> >> }

\* database.exemptComputers as written in the configuration file.
ExemptChoices == { <<>>, << <<"a">> >>, << <<"B">> >> }

\* What powershell writes to stdout: nothing; a table without rows; a table
\* with one device, lines ended by CR LF; a table whose lines end with LF.
EmptyReport == <<>>
HeaderOnlyReport ==
    <<"\r","\n","D","i","s","p","l","a","y","N","a","m","e","\r","\n","-","-","-","-","-","-","-","-","-","-","-","\r","\n","\r","\n","\r","\n">>
DeviceReport ==
    <<"\r","\n","D","i","s","p","l","a","y","N","a","m","e","\r","\n","-","-","-","-","-","-","-","-","-","-","-","\r","\n","b","\r","\n","\r","\n","j","u","n","k","\r","\n">>
ExampleReport ==
    <<"H","e","a","d","e","r","\n","-","-","-","-","-","-","-","-","-","-","-","\n","D","E","V","I","C","E","1","\n","D","E","V","I","C","E","2","\n","\n","T","r","a","i","l","i","n","g"," ","j","u","n","k">>
Reports == <<EmptyReport, HeaderOnlyReport, DeviceReport, ExampleReport>>

\* select ComputerName ... / delete ... where ComputerName = ?
SqlEquals(a, b) == IF collationCI THEN ToUpper(a) = ToUpper(b) ELSE a = b

RowsMatching(name) == SelectSeq(store, LAMBDA r : SqlEquals(r, name))

RowsLeft(name) == SelectSeq(store, LAMBDA r : ~SqlEquals(r, name))

\* ------------------------------------------------------------- logging
Line(kind, name, n) == [kind |-> kind, name |-> name, n |-> n]

WriteInfo(lg, line) == Append(lg, line)

\* ------------------------------------------------------------- main()
AfterListDB ==
    IF config.adEnabled THEN "listAD"
    ELSE IF config.azEnabled THEN "listAzure" ELSE "reconcile"

AfterListAD == IF config.azEnabled THEN "listAzure" ELSE "reconcile"

NoRun ==
    [completed |-> FALSE, allRemoved |-> FALSE, allReported |-> FALSE, deletes |-> 0]

IdleCloud ==
    /\ wIdx = 0 /\ stdinClosed = FALSE /\ stdinBuf = 0 /\ childPc = "none"
    /\ outBuf = 0 /\ errBuf = 0 /\ outSent = 0 /\ errSent = 0 /\ azPc = "none"

FreshProcess ==
    /\ dbComputers = <<>> /\ adComputers = <<>>
    /\ pc = "listDB" /\ halted = FALSE /\ x = 1 /\ count = 0
    /\ ext = [db |-> "none", ldap |-> "none", az |-> "none"]
    /\ sinkCalls = <<>> /\ log = <<>>

Init ==
    /\ config \in [adEnabled : BOOLEAN, azEnabled : BOOLEAN,
                   exempt : ExemptChoices, dsnValid : BOOLEAN]
    /\ store \in SeqsUpTo(RawNames, MaxRows)
    /\ collationCI \in BOOLEAN
    /\ adDir \in DirChoices
    /\ azReport \in 1..Len(Reports)
    /\ (~config.adEnabled => adDir = <<>>)
    /\ (~config.azEnabled => azReport = 1)
    /\ FreshProcess
    /\ run = 1 /\ prevRun = NoRun
    /\ IdleCloud

\* --------------------------------------------------- listDBComputers()
ReadRows_FirstOnly(rows) ==
    [i \in 1..(IF Len(rows) > 0 THEN 1 ELSE 0) |-> ToUpper(rows[i])]

ReadRows(rows) == ToUpperAll(rows)

ListDBComputers ==
    /\ pc = "listDB" /\ ~halted
    /\ \/ /\ ~config.dsnValid
          /\ ext' = [ext EXCEPT !.db = "openFail"]
          /\ halted' = TRUE
          /\ UNCHANGED <<dbComputers, log, pc>>
       \/ /\ config.dsnValid
          /\ ext' = [ext EXCEPT !.db = "queryFail"]
          /\ halted' = TRUE
          /\ UNCHANGED <<dbComputers, log, pc>>
       \/ /\ config.dsnValid
          /\ \E k \in 0..Len(store) :
                dbComputers' = dbComputers \o ReadRows(SubSeq(store, 1, k))
          /\ ext' = [ext EXCEPT !.db = "readFail"]
          /\ halted' = TRUE
          /\ UNCHANGED <<log, pc>>
       \/ /\ config.dsnValid
          /\ dbComputers' = dbComputers \o ReadRows(store)
          /\ ext' = [ext EXCEPT !.db = "ok"]
          /\ log' = WriteInfo(log, Line("dbRecords", <<>>, Len(dbComputers')))
          /\ pc' = AfterListDB
          /\ UNCHANGED halted
    /\ UNCHANGED <<config, store, collationCI, adDir, azReport, adComputers,
                   x, count, sinkCalls, run, prevRun>>
    /\ UNCHANGED cloudVars

\* --------------------------------------------------- listADComputers()
ADFatal_NoEmptyCheck(o, entries) == o # "ok"

ADFatal(o, entries) == o # "ok" \/ Len(entries) = 0

ListADComputers ==
    /\ pc = "listAD" /\ ~halted
    /\ \E o \in {"dialFail", "bindFail", "searchFail", "ok"} :
          /\ ext' = [ext EXCEPT !.ldap = o]
          /\ IF ADFatal(o, adDir)
             THEN /\ halted' = TRUE
                  /\ UNCHANGED <<adComputers, log, pc>>
             ELSE /\ adComputers' = adComputers \o ToUpperAll(adDir)
                  /\ log' = WriteInfo(log, Line("adRecords", <<>>, Len(adComputers')))
                  /\ pc' = AfterListAD
                  /\ UNCHANGED halted
    /\ UNCHANGED <<config, store, collationCI, adDir, azReport, dbComputers,
                   x, count, sinkCalls, run, prevRun>>
    /\ UNCHANGED cloudVars

\* ------------------------------------------------ listAzureComputers()
AzureFatal_EmptyIsFatal(o, devices) == o # "ok" \/ Len(devices) = 0

AzureFatal(o, devices) == o # "ok"

ListAzureComputers ==
    /\ pc = "listAzure" /\ ~halted
    /\ \E o \in {"pipeFail", "startFail", "exitErr", "ok"} :
          LET devices == ParseReport(Reports[azReport]) IN
          /\ ext' = [ext EXCEPT !.az = o]
          /\ IF AzureFatal(o, devices)
             THEN /\ halted' = TRUE
                  /\ UNCHANGED <<adComputers, log, pc>>
             ELSE /\ adComputers' = adComputers \o devices
                  /\ log' = WriteInfo(log, Line("azureRecords", <<>>, Len(devices)))
                  /\ pc' = "reconcile"
                  /\ UNCHANGED halted
    /\ UNCHANGED <<config, store, collationCI, adDir, azReport, dbComputers,
                   x, count, sinkCalls, run, prevRun>>
    /\ UNCHANGED cloudVars

\* ---------------------------------------- findComputersToRemoveFromDB()
InAD(name) == \E y \in 1..Len(adComputers) : name = adComputers[y]

IsExempt(name) == \E y \in 1..Len(config.exempt) : name = config.exempt[y]

IsRemovalCandidate_IgnoreExempt(name) == ~InAD(name)

IsRemovalCandidate(name) == ~InAD(name) /\ ~IsExempt(name)

\* removeComputer(name): execErr is whether conn.Exec returns an error.
RemoveComputer_PanicOnError(name, execErr) ==
    [fatal    |-> ~config.dsnValid \/ execErr,
     removed  |-> ~execErr,
     rows     |-> IF execErr THEN 0 ELSE Len(RowsMatching(name)),
     store    |-> IF execErr THEN store ELSE RowsLeft(name),
     line     |-> IF execErr THEN Line("failed", name, 0)
                             ELSE Line("removed", name, 0)]

RemoveComputer(name, execErr) ==
    [fatal    |-> ~config.dsnValid,
     removed  |-> ~execErr,
     rows     |-> IF execErr THEN 0 ELSE Len(RowsMatching(name)),
     store    |-> IF execErr THEN store ELSE RowsLeft(name),
     line     |-> IF execErr THEN Line("failed", name, 0)
                             ELSE Line("removed", name, 0)]

FindStep ==
    /\ pc = "reconcile" /\ ~halted /\ x <= Len(dbComputers)
    /\ LET name == dbComputers[x] IN
       IF ~IsRemovalCandidate(name)
       THEN /\ log' = IF ~InAD(name)
                      THEN WriteInfo(log, Line("exempt", name, 0)) ELSE log
            /\ x' = x + 1
            /\ UNCHANGED <<store, count, sinkCalls, halted>>
       ELSE \E execErr \in BOOLEAN :
               LET r == RemoveComputer(name, execErr) IN
               IF r.fatal
               THEN /\ halted' = TRUE
                    /\ UNCHANGED <<store, count, sinkCalls, log, x>>
               ELSE /\ store' = r.store
                    /\ log' = WriteInfo(log, r.line)
                    /\ sinkCalls' = Append(sinkCalls,
                           [name |-> name, err |-> execErr, rows |-> r.rows,
                            removed |-> r.removed])
                    /\ count' = IF r.removed THEN count + 1 ELSE count
                    /\ x' = x + 1
                    /\ UNCHANGED halted
    /\ UNCHANGED <<config, collationCI, adDir, azReport, dbComputers,
                   adComputers, pc, ext, run, prevRun>>
    /\ UNCHANGED cloudVars

FindFinish ==
    /\ pc = "reconcile" /\ ~halted /\ x > Len(dbComputers)
    /\ log' = WriteInfo(log, Line("summary", <<>>, count))
    /\ pc' = "done"
    /\ UNCHANGED <<config, store, collationCI, adDir, azReport, dbComputers,
                   adComputers, halted, x, count, ext, sinkCalls, run, prevRun>>
    /\ UNCHANGED cloudVars

\* The program is started again (a new process: the globals are fresh, the
\* store is as the previous run left it, the directories and the
\* configuration are unchanged).  A run that halted changed nothing, so
\* starting again after it is starting from Init.
AllRemoved ==
    \A i \in 1..Len(sinkCalls) : ~sinkCalls[i].err /\ sinkCalls[i].rows >= 1

AllReported == \A i \in 1..Len(sinkCalls) : sinkCalls[i].removed

StartAgain ==
    /\ pc = "done" /\ run < MaxRuns
    /\ run' = run + 1
    /\ prevRun' = [completed |-> TRUE, allRemoved |-> AllRemoved,
                   allReported |-> AllReported, deletes |-> Len(sinkCalls)]
    /\ dbComputers' = <<>> /\ adComputers' = <<>>
    /\ pc' = "listDB" /\ halted' = FALSE /\ x' = 1 /\ count' = 0
    /\ ext' = [db |-> "none", ldap |-> "none", az |-> "none"]
    /\ sinkCalls' = <<>> /\ log' = <<>>
    /\ UNCHANGED <<config, store, collationCI, adDir, azReport>>
    /\ UNCHANGED cloudVars

Next ==
    \/ ListDBComputers
    \/ ListADComputers
    \/ ListAzureComputers
    \/ FindStep
    \/ FindFinish
    \/ StartAgain

Spec == Init /\ [][Next]_vars

\* -------------------------- listAzureComputers(): the powershell session
\* The exchange of listAzureComputers with the powershell process over the
\* three pipes, step by step.  A pipe holds at most PipeCap units; a write to
\* a full pipe and a read of an empty open pipe block.  powershell writes at
\* most MaxOutput units to each of stdout and stderr.
InitCloud ==
    /\ config = [adEnabled |-> FALSE, azEnabled |-> TRUE, exempt |-> <<>>,
                 dsnValid |-> TRUE]
    /\ store = <<>> /\ collationCI = TRUE /\ adDir = <<>> /\ azReport = 1
    /\ dbComputers = <<>> /\ adComputers = <<>>
    /\ pc = "listAzure" /\ halted = FALSE /\ x = 1 /\ count = 0
    /\ ext = [db |-> "ok", ldap |-> "none", az |-> "none"]
    /\ sinkCalls = <<>>
    /\ log = <<Line("dbRecords", <<>>, 0)>>
    /\ run = 1 /\ prevRun = NoRun
    /\ wIdx = 0 /\ stdinClosed = FALSE /\ stdinBuf = 0 /\ childPc = "notStarted"
    /\ outBuf = 0 /\ errBuf = 0 /\ outSent = 0 /\ errSent = 0 /\ azPc = "start"

SessionAlive == azPc \notin {"none", "aborted", "parse"}

\* go func() { defer stdin.Close(); fmt.Fprintln(stdin, ...) x 6 }()
WriterWrite ==
    /\ SessionAlive /\ ~stdinClosed /\ wIdx < NumCommands
    /\ stdinBuf < PipeCap
    /\ wIdx' = wIdx + 1
    /\ stdinBuf' = stdinBuf + 1
    /\ UNCHANGED <<stdinClosed, childPc, outBuf, errBuf, outSent, errSent, azPc>>
    /\ UNCHANGED mainVars

WriterClose ==
    /\ SessionAlive /\ ~stdinClosed /\ wIdx = NumCommands
    /\ stdinClosed' = TRUE
    /\ UNCHANGED <<wIdx, stdinBuf, childPc, outBuf, errBuf, outSent, errSent, azPc>>
    /\ UNCHANGED mainVars

Writer == WriterWrite \/ WriterClose

\* What powershell does next once a read or a write has returned.
ChildChoices ==
    {"read"} \cup (IF outSent' < MaxOutput THEN {"writeOut"} ELSE {})
             \cup (IF errSent' < MaxOutput THEN {"writeErr"} ELSE {})

ChildRead ==
    /\ SessionAlive /\ childPc = "read"
    /\ \/ /\ stdinBuf > 0
          /\ stdinBuf' = stdinBuf - 1
          /\ UNCHANGED <<outSent, errSent>>
          /\ childPc' \in ChildChoices
       \/ /\ stdinBuf = 0 /\ stdinClosed
          /\ childPc' = "exited"
          /\ UNCHANGED <<stdinBuf, outSent, errSent>>
    /\ UNCHANGED <<wIdx, stdinClosed, outBuf, errBuf, azPc>>
    /\ UNCHANGED mainVars

ChildWriteOut ==
    /\ SessionAlive /\ childPc = "writeOut"
    /\ outBuf < PipeCap
    /\ outBuf' = outBuf + 1
    /\ outSent' = outSent + 1
    /\ UNCHANGED errSent
    /\ childPc' \in ChildChoices
    /\ UNCHANGED <<wIdx, stdinClosed, stdinBuf, errBuf, azPc>>
    /\ UNCHANGED mainVars

ChildWriteErr ==
    /\ SessionAlive /\ childPc = "writeErr"
    /\ errBuf < PipeCap
    /\ errBuf' = errBuf + 1
    /\ errSent' = errSent + 1
    /\ UNCHANGED outSent
    /\ childPc' \in ChildChoices
    /\ UNCHANGED <<wIdx, stdinClosed, stdinBuf, outBuf, azPc>>
    /\ UNCHANGED mainVars

Child == ChildRead \/ ChildWriteOut \/ ChildWriteErr

\* cmd.Start()
AzStart ==
    /\ azPc = "start"
    /\ \/ /\ azPc' = "readStdout"
          /\ childPc' = "read"
       \/ /\ azPc' = "aborted"
          /\ UNCHANGED childPc
    /\ UNCHANGED <<wIdx, stdinClosed, stdinBuf, outBuf, errBuf, outSent, errSent>>
    /\ UNCHANGED mainVars

\* out, _ := io.ReadAll(stdout)
AzReadStdout ==
    /\ azPc = "readStdout"
    /\ \/ /\ outBuf > 0
          /\ outBuf' = 0
          /\ UNCHANGED azPc
       \/ /\ outBuf = 0 /\ childPc = "exited"
          /\ azPc' = "readStderr"
          /\ UNCHANGED outBuf
    /\ UNCHANGED <<wIdx, stdinClosed, stdinBuf, childPc, errBuf, outSent, errSent>>
    /\ UNCHANGED mainVars

\* errtxt, _ := io.ReadAll(stderr)
AzReadStderr ==
    /\ azPc = "readStderr"
    /\ \/ /\ errBuf > 0
          /\ errBuf' = 0
          /\ UNCHANGED azPc
       \/ /\ errBuf = 0 /\ childPc = "exited"
          /\ azPc' = "wait"
          /\ UNCHANGED errBuf
    /\ UNCHANGED <<wIdx, stdinClosed, stdinBuf, childPc, outBuf, outSent, errSent>>
    /\ UNCHANGED mainVars

\* cmd.Wait()
AzWait ==
    /\ azPc = "wait" /\ childPc = "exited"
    /\ azPc' \in {"parse", "aborted"}
    /\ UNCHANGED <<wIdx, stdinClosed, stdinBuf, childPc, outBuf, errBuf, outSent, errSent>>
    /\ UNCHANGED mainVars

AzSession == AzStart \/ AzReadStdout \/ AzReadStderr \/ AzWait

NextCloud ==
    \/ WriterWrite
    \/ WriterClose
    \/ ChildRead
    \/ ChildWriteOut
    \/ ChildWriteErr
    \/ AzStart
    \/ AzReadStdout
    \/ AzReadStderr
    \/ AzWait

\* The Go scheduler runs every runnable goroutine and the operating system
\* every runnable process: a step that stays possible is eventually taken.
SpecCloud ==
    /\ InitCloud /\ [][NextCloud]_vars
    /\ WF_vars(Writer) /\ WF_vars(Child) /\ WF_vars(AzSession)

\* ================================================================ claims
SinkNames == [i \in 1..Len(sinkCalls) |-> sinkCalls[i].name]

InventorySet == Range(dbComputers)

AuthoritativeSet == Range(adComputers)

ExemptList == Range(config.exempt)

\* What the enabled directory adapters return, from the directories themselves.
AdapterUnion ==
    (IF config.adEnabled THEN {ToUpper(cn) : cn \in Range(adDir)} ELSE {})
    \cup (IF config.azEnabled THEN Range(ParseReport(Reports[azReport])) ELSE {})

Reconciling == pc \in {"reconcile", "done"}

\* C1: the identifiers passed to removeComputer are exactly those of the
\* inventory that are neither in the authoritative set (the union of what the
\* enabled adapters returned) nor in the exempt list: never one outside that
\* difference while the loop runs, and all of them once the run has ended.
C1_RemovalSetIsDifference ==
    /\ Reconciling => AuthoritativeSet = AdapterUnion
    /\ Range(SinkNames) \subseteq InventorySet \ (AuthoritativeSet \cup ExemptList)
    /\ pc = "done" =>
          Range(SinkNames) = InventorySet \ (AuthoritativeSet \cup ExemptList)

C1_Witness ==
    /\ pc = "done"
    /\ Range(SinkNames) # {}
    /\ InventorySet \cap AuthoritativeSet # {}
    /\ InventorySet \cap ExemptList # {}

\* C2: fail-fast.  A fatal condition (inventory read failure, LDAP
\* dial/bind/search failure, an empty LDAP result, a powershell launch or exit
\* failure) halts the run where it occurs, a halted run has issued no delete,
\* and a delete is only issued after the inventory reader and every enabled
\* adapter ended without error.
C2_FailFast ==
    /\ halted => sinkCalls = <<>>
    /\ ext.db \notin {"none", "ok"} => halted /\ pc = "listDB"
    /\ (ext.ldap \notin {"none", "ok"} \/ (ext.ldap = "ok" /\ adDir = <<>>))
          => halted /\ pc = "listAD"
    /\ ext.az \notin {"none", "ok"} => halted /\ pc = "listAzure"
    /\ sinkCalls # <<>> =>
          /\ ext.db = "ok"
          /\ config.adEnabled => (ext.ldap = "ok" /\ adDir # <<>>)
          /\ config.azEnabled => ext.az = "ok"

C2_Witness ==
    /\ halted /\ pc = "listAD"
    /\ ext.ldap = "ok" /\ adDir = <<>>
    /\ InventorySet \ ExemptList # {}

\* C3: an inventory identifier equal to the uppercase form of a configured
\* exempt name, in whatever case the name is configured, is never passed to
\* removeComputer and, when absent from the authoritative set, is logged as
\* exempt.
C3_ExemptionOverNormalizedNames ==
    \A e \in ExemptList :
        LET n == ToUpper(e) IN
        /\ n \notin Range(SinkNames)
        /\ (pc = "done" /\ n \in InventorySet /\ n \notin AuthoritativeSet)
              => Line("exempt", n, 0) \in Range(log)

\* C4: removeComputer reports removed only when the delete returned no error
\* and affected a row, and the counter is the number of such deletes.
C4_RemovedMeansRowDeleted ==
    /\ \A i \in 1..Len(sinkCalls) :
          sinkCalls[i].removed => (~sinkCalls[i].err /\ sinkCalls[i].rows >= 1)
    /\ count = Cardinality({i \in 1..Len(sinkCalls) :
                               ~sinkCalls[i].err /\ sinkCalls[i].rows >= 1})

\* C5: for the report "Header\n-----------\nDEVICE1\nDEVICE2\n\nTrailing junk"
\* the cloud adapter adds exactly DEVICE1 and DEVICE2 to the authoritative set.
C5_ExampleReportParsed ==
    (Reconciling /\ config.azEnabled /\ ~config.adEnabled
        /\ Reports[azReport] = ExampleReport)
    => adComputers = << <<"D","E","V","I","C","E","1">>,
                        <<"D","E","V","I","C","E","2">> >>

C8_NoBlankIdentifiers ==
    \A s \in InventorySet \cup AuthoritativeSet \cup ExemptList :
        TrimSpace(s) # <<>>

\* C9: once powershell is started, listAzureComputers eventually has drained
\* stdout and stderr and reaches cmd.Wait().
C9_SessionNeverDeadlocks == (azPc = "readStdout") ~> (azPc = "wait")

\* The reports that hold no device line.
ZeroDeviceReport == Reports[azReport] \in {EmptyReport, HeaderOnlyReport}

\* C10: a powershell session that ends without error and whose report holds
\* no device line does not halt the run: the cloud adapter adds nothing to
\* adComputers, logs a count of 0 and the run goes on to the reconciliation;
\* whereas an LDAP search that returns no entry halts the run in
\* listADComputers before any delete.
C10_EmptyResultPolicy ==
    /\ (config.azEnabled /\ ext.az = "ok" /\ ZeroDeviceReport) =>
          /\ ~halted /\ Reconciling
          /\ adComputers = (IF config.adEnabled THEN ToUpperAll(adDir) ELSE <<>>)
          /\ Line("azureRecords", <<>>, 0) \in Range(log)
    /\ (config.adEnabled /\ ext.ldap = "ok" /\ adDir = <<>>) =>
          /\ halted /\ pc = "listAD"
          /\ sinkCalls = <<>>

C10_Witness ==
    /\ config.azEnabled /\ ext.az = "ok" /\ ZeroDeviceReport
    /\ pc = "done" /\ sinkCalls # <<>>

=============================================================================
